---- MODULE Spec2Model ----
(***************************************************************************)
(* A model of the DyNe dataflow engine (src/dyne/base.py) and of the way   *)
(* the orchestrator (src/dyne/pipeline.py) builds and drives a pipe graph. *)
(*                                                                         *)
(* Pipes are numbered 1..NPipes; pipe 1 is the declared SOURCE.  A flow    *)
(* handle is the coroutine that link() creates for one entry of a pipe's   *)
(* downstream_pipe_flow list; it is identified by <<upstream, index>>.     *)
(* The synchronous send()/close() calls between coroutines are modelled by *)
(* an explicit call stack, one frame per running loop.                     *)
(***************************************************************************)
EXTENDS Integers, Sequences, FiniteSets, TLC

\* ------------------------------------------------------------------ bounds
NPipes == 4
MaxPayloads == 2

\* self.pipes['None'] = None: the name that stands for "no downstream"
NoPipe == 0

Pipes == 1 .. NPipes
SourcePipe == 1

\* A name the pipe definitions do not declare: self.pipes has no such key.
Undeclared == NPipes + 1
Names == Pipes \cup {Undeclared}

\* ------------------------------------------------------------ role taxonomy
Roles ==
    {"Interface", "Preproc", "Adjacency", "GlobalTopo", "NodeTopo",
     "EdgeTopo", "Logger"}

\* The roles whose class overrides get_valid_link.  LoggerPipe defines
\* get_valid_pipe instead, so BasePipe.get_valid_link is what a Logger runs.
HasValidLink(r) == r # "Logger"

\* get_valid_link of each role class.
StdValidLink(r) ==
    CASE r = "Interface"  -> {"Logger", "Preproc", "Adjacency"}
      [] r = "Preproc"    -> {"Logger", "Preproc", "Adjacency"}
      [] r = "Adjacency"  -> {"GlobalTopo", "NodeTopo", "EdgeTopo", "Logger"}
      [] r = "GlobalTopo" -> {"Logger"}
      [] r = "NodeTopo"   -> {"Logger"}
      [] r = "EdgeTopo"   -> {"Logger"}
      [] OTHER            -> {}

\* A table in which the aggregate roles may also feed a Preproc pipe.
LooseValidLink(r) ==
    IF r \in {"GlobalTopo", "NodeTopo", "EdgeTopo"}
    THEN {"Logger", "Preproc"} ELSE StdValidLink(r)

get_valid_link(r) == StdValidLink(r)

\* The keys _verify_signal_packet of each role class requires in a payload.
RequiredKeys(r) ==
    CASE r = "Interface"  -> {"data", "ax_0", "ax_1"}
      [] r = "Preproc"    -> {"data", "ax_0", "ax_1"}
      [] r = "Adjacency"  -> {"data", "ax_0", "ax_1", "time"}
      [] r = "GlobalTopo" -> {"data", "time"}
      [] r = "NodeTopo"   -> {"data", "ax_0", "time"}
      [] r = "EdgeTopo"   -> {"data", "ax_0", "ax_1", "time"}
      [] OTHER            -> {}

\* ------------------------------------------------------------ identity hash
\* A pipe instance, as far as to_hash reads it: the module and name of its
\* class, the parameter names of the class's __init__ in declared order
\* (_get_param_var) and the instance attributes (self.__dict__).
\* A parameter value is a tagged Python value:
\*   [t |-> "int", v |-> 1]   [t |-> "str", v |-> "1"]
\*   [t |-> "list", v |-> <<1>>]   [t |-> "tuple", v |-> <<1>>]

\* Parameter names in the order sorted() gives them.
ParamNames == <<"As", "Rp", "Wp", "cache", "pipe_name">>

KeyRank(n) == CHOOSE i \in 1 .. Len(ParamNames) : ParamNames[i] = n

RECURSIVE JoinItems(_)
\* ", ".join of the items of a list or tuple of ints
JoinItems(xs) ==
    IF xs = << >> THEN << >>
    ELSE IF Len(xs) = 1 THEN <<ToString(Head(xs))>>
    ELSE <<ToString(Head(xs)), ", ">> \o JoinItems(Tail(xs))

\* json.dumps of one parameter value: the text, as a sequence of tokens.
\* The encoder writes a tuple exactly as it writes a list.
JSONValue(x) ==
    CASE x.t = "int"   -> <<ToString(x.v)>>
      [] x.t = "str"   -> <<"\"", x.v, "\"">>
      [] x.t = "list"  -> <<"[">> \o JoinItems(x.v) \o <<"]">>
      [] x.t = "tuple" -> <<"[">> \o JoinItems(x.v) \o <<"]">>

\* The keys of a dict as json.dumps(..., sort_keys=True) writes them.
SortedKeys(keys) ==
    SortSeq(keys, LAMBDA a, b : KeyRank(a) < KeyRank(b))

RECURSIVE DumpItems(_, _)
DumpItems(d, keys) ==
    IF keys = << >> THEN << >>
    ELSE LET k == Head(keys)
             item == <<"\"", k, "\"", ": ">> \o JSONValue(d[k])
         IN  IF Len(keys) = 1 THEN item
             ELSE item \o <<", ">> \o DumpItems(d, Tail(keys))

\* json.dumps(param_dict, sort_keys=True)
JsonDumps(d, keys) == <<"{">> \o DumpItems(d, SortedKeys(keys)) \o <<"}">>

\* _get_param_var: the __init__ argument names without self, declared order
get_param_var(cls) == cls.params

\* to_JSON: param_dict[param] = self.__dict__[param] for each declared
\* parameter, then dumped with sorted keys.
to_JSON(inst) ==
    LET names == get_param_var(inst.cls)
        param_dict == [n \in {names[i] : i \in 1 .. Len(names)} |-> inst.dict[n]]
    IN  JsonDumps(param_dict, names)

\* '{}.{}: {}'.format(self.__module__, self.__class__.__name__, to_JSON())
FmtStrNoModule(inst) == <<inst.cls.name, ": ">> \o to_JSON(inst)

FmtStr(inst) == <<inst.cls.module, ".", inst.cls.name, ": ">> \o to_JSON(inst)

\* hashlib.sha224(...).hexdigest(): the digest stands for the text it was
\* computed from (distinct texts are taken to have distinct digests).
sha224(text) == <<"sha224">> \o text

to_hash(inst) == sha224(FmtStr(inst))

\* cls(**kw): every __init__ stores each argument under its own name.
\* kw is the sequence of [name, val] pairs in the order they were supplied.
Construct(cls, kw) ==
    [cls  |-> cls,
     dict |-> [n \in {kw[i].name : i \in 1 .. Len(kw)} |->
                 kw[CHOOSE i \in 1 .. Len(kw) : kw[i].name = n].val]]


\* ------------------------------------------------------------------- state
VARIABLES
    role,      \* role[p]: the pipe-type class of pipe p
    topo,      \* the declared topology: topo[p] is p's downstream names, or Absent
    pending,   \* topology entries the orchestrator has not linked yet
    linked,    \* linked[p]: p has the attribute downstream_pipe_flow
    flow,      \* flow[p]: downstream_pipe_flow of p, a list of flow handles
    stack,     \* the call stack of running loops, innermost last
    heap,      \* the payload objects allocated so far
    log,       \* what happened so far, in order
    produced,  \* payloads the production routine has yielded
    phase,     \* "build", "run", "done" or "raised"
    err,       \* the exception that left the program, "" if none
    insts,     \* the pipe instances whose identity is computed
    hashes,    \* the results of the to_hash calls made so far
    made,      \* the pipes instantiated so far (the keys of self.pipes)
    lineage,   \* log_entries_df: whether it exists, and its rows
    csv        \* what was written to the log path, one item per to_csv

runVars == <<role, topo, pending, linked, flow, stack, heap, log, produced,
             phase, err>>
hashVars == <<insts, hashes>>
orchVars == <<made, lineage, csv>>
vars == <<runVars, hashVars, orchVars>>

\* A pipe without an entry in the topology.
Absent == << -1 >>

\* The declared topologies, as the downstream lists of pipes 1, 2, ...
\* (pipes beyond the end of a row have no entry).
ShapeRows ==
    { << <<2>>, <<3>>, <<4>>, << >> >>,        \* chain
      << <<2>>, <<3>>, <<4>> >>,               \* chain, last pipe has no entry
      << <<2, 3>>, << >>, << >> >>,            \* fan-out to two terminals
      << <<2, 3>>, <<4>>, << >>, << >> >>,     \* fan-out, first branch deeper
      << <<2>>, <<3, 4>>, << >>, << >> >>,     \* a flow pipe fans out
      << <<2, 3>>, <<4>>, <<4>>, << >> >>,     \* diamond
      << <<2, 3>>, <<3>>, <<4>>, << >> >>,     \* a join with a pipe below it
      << <<2, 2>>, <<3>>, << >> >>,            \* the same pipe linked twice
      << <<2>>, <<2, 3>>, << >> >>,            \* self-reference
      << <<2>>, <<3>>, <<2>> >>,               \* cycle
      << Absent, <<3>>, << >> >>,              \* the source has no entry
      << <<2, NoPipe>>, <<NoPipe>> >>,         \* 'None' entries
      << << >> >>,                             \* a source alone
      << <<2>>, <<Undeclared>> >>,             \* an undeclared downstream
      << <<Undeclared, 2>>, << >> >> }         \* the same, at the source

Shape(row) ==
    [n \in Names |-> IF n \in Pipes /\ n <= Len(row) THEN row[n] ELSE Absent]

\* A topology with an entry for an undeclared upstream name.
UndeclaredUpstream ==
    [Shape(<< <<2>>, << >> >>) EXCEPT ![Undeclared] = <<2>>]

Shapes == { Shape(row) : row \in ShapeRows } \cup {UndeclaredUpstream}

\* --------------------------------------------------------------- packets
\* An envelope {hash: payload}: key is the tagging pipe's hash, ref the
\* payload object (an index into heap).  NonePacket is Python's None.
NonePacket == [none |-> TRUE, key |-> << >>, ref |-> 0]
Envelope(key, ref) == [none |-> FALSE, key |-> key, ref |-> ref]

\* A payload object: the ordinal of the source payload it derives from, the
\* keys it holds, and the pipes that wrote its data, in order.
Payload(k, keys, val) == [k |-> k, keys |-> keys, val |-> val]

\* The class and parameters of the pipe instances of a run.
PipeClass(r) == [module |-> "dyne.base", name |-> r, params |-> <<"Rp">>]
PipeInstance(p, r) ==
    Construct(PipeClass(r), << [name |-> "Rp", val |-> [t |-> "int", v |-> p]] >>)

HashOf(p) == to_hash(PipeInstance(p, role[p]))

\* _tag_signal_packet: a new envelope around the payload, keyed by own hash
tag_signal_packet(p, ref) == Envelope(HashOf(p), ref)

\* _retag_signal_packet: a new envelope, same inner payload, own hash
retag_signal_packet(p, pkt) == Envelope(HashOf(p), pkt.ref)

\* errors.check_has_key(d, key): raises unless key is in d
check_has_key(keys, key) == key \in keys

\* A verification that only looks at the envelope.
VerifyEnvelopeOnly(r, obj) == TRUE

\* _verify_signal_packet of role r on an envelope whose payload is obj:
\* TRUE when no check raises.
verify_signal_packet(r, obj) ==
    \A key \in RequiredKeys(r) : check_has_key(obj.keys, key)

\* copy.deepcopy of a payload object: a new object with the same content
DeepCopyAlias(h, ref) == [heap |-> h, ref |-> ref]

DeepCopy(h, ref) == [heap |-> Append(h, h[ref]), ref |-> Len(h) + 1]


\* ------------------------------------------------------------------ link()
\* The real candidates of a topology entry.
RealCandidates(L) == SelectSeq(L, LAMBDA d : d # NoPipe)

Handle(q) == [pipe |-> q, st |-> "suspended"]

RECURSIVE LinkScan(_, _, _)
\* The loop of link(): r is the upstream's role, L the candidates left, acc
\* the handles appended so far.  Ends with the list built and the exception
\* raised, "" if none.
LinkScan(r, L, acc) ==
    IF L = << >> THEN [flow |-> acc, err |-> ""]
    ELSE LET d == Head(L) IN
         IF d = NoPipe THEN LinkScan(r, Tail(L), acc)
         ELSE IF ~HasValidLink(r)
              THEN [flow |-> acc, err |-> "NotImplementedError"]
         ELSE IF role[d] \notin get_valid_link(r)
              THEN [flow |-> acc, err |-> "PipeLinkError"]
         ELSE LinkScan(r, Tail(L), Append(acc, Handle(d)))

\* A link() that registers only the downstreams that are linked themselves.
linkLinkedOnly(p, L) ==
    LinkScan(role[p], SelectSeq(L, LAMBDA d : d = NoPipe \/ linked[d]), << >>)

\* A link() that registers every downstream twice.
linkTwice(p, L) == LinkScan(role[p], L \o L, << >>)

\* A link() that leaves the list as it was when a candidate is refused.
linkAtomic(p, L) ==
    LET res == LinkScan(role[p], L, << >>)
    IN  IF res.err = "" THEN res ELSE [flow |-> flow[p], err |-> res.err]

\* link(downstream_pipe_list) on pipe p: downstream_pipe_flow is reset, then
\* filled candidate by candidate.
link(p, L) == LinkScan(role[p], L, << >>)

\* ------------------------------------------------------------- call stack
NoHandle == <<0, 0>>

Frame(kind, p, h, pc, pkt, k) ==
    [kind |-> kind, p |-> p, h |-> h, pc |-> pc, i |-> 1, pkt |-> pkt, k |-> k]

Top == stack[Len(stack)]
Below == SubSeq(stack, 1, Len(stack) - 1)
SetTop(f) == [stack EXCEPT ![Len(stack)] = f]

Ev(t, p, h, k) == [t |-> t, p |-> p, h |-> h, k |-> k]

\* An exception leaves every running loop: no loop catches what a send() or
\* close() raises, so each coroutine on the stack ends.
Unwound(fl) ==
    [u \in Pipes |->
       [i \in 1 .. Len(fl[u]) |->
          IF \E j \in 1 .. Len(stack) : stack[j].h = <<u, i>>
          THEN [fl[u][i] EXCEPT !.st = "closed"] ELSE fl[u][i]]]

\* An exception that the caller of the failed coroutine catches, going on
\* with its next downstream handle.
RaiseCaught(e) ==
    IF Len(stack) >= 2
    THEN /\ phase' = phase
         /\ err' = err
         /\ flow' = [flow EXCEPT ![Top.h[1]][Top.h[2]].st = "closed"]
         /\ stack' = [Below EXCEPT ![Len(Below)].i = @ + 1]
    ELSE /\ phase' = "raised"
         /\ err' = e
         /\ stack' = << >>
         /\ flow' = flow

Raise(e) ==
    /\ phase' = "raised"
    /\ err' = e
    /\ stack' = << >>
    /\ flow' = Unwound(flow)

\* ------------------------------------------------------------ orchestrator
\* Pipeline.__init__, "Instantiate each pipe": every declared pipe is
\* constructed and stored under its name, and 'None' is stored as None.
Instantiate ==
    /\ phase = "build"
    /\ made = {}
    /\ made' = Pipes
    /\ UNCHANGED <<runVars, hashVars, lineage, csv>>

\* self.pipes[name] finds a pipe (or None for 'None').
HasKey(n) == n \in made \cup {NoPipe}

\* Pipeline.__init__, one topology entry: upstream_inst = self.pipes[n], then
\* upstream_inst.link(map(lambda k: self.pipes[k], value)).  A name without
\* a key raises KeyError before link() is called.  The entries are taken in
\* the order the mapping iterates, which is arbitrary.
Link(p) ==
    /\ phase = "build"
    /\ made = Pipes
    /\ p \in pending
    /\ pending' = pending \ {p}
    /\ IF ~HasKey(p) \/ \E i \in 1 .. Len(topo[p]) : ~HasKey(topo[p][i])
       THEN /\ err' = "KeyError"
            /\ phase' = "raised"
            /\ UNCHANGED <<linked, flow>>
       ELSE LET res == link(p, topo[p]) IN
            /\ linked' = [linked EXCEPT ![p] = TRUE]
            /\ flow' = [flow EXCEPT ![p] = res.flow]
            /\ err' = res.err
            /\ phase' = IF res.err = "" THEN "build" ELSE "raised"
    /\ UNCHANGED <<role, topo, stack, heap, log, produced, hashVars, orchVars>>

RECURSIVE EdgesFrom(_, _)
\* The (upstream, downstream) pairs of the topology from entry p on, 'None'
\* left out: the pairs the logging loop makes a record for.  The mapping is
\* walked in name order here; the order of the rows is not modelled.
EdgesFrom(t, p) ==
    IF p > NPipes THEN << >>
    ELSE (IF t[p] = Absent THEN << >>
          ELSE LET L == RealCandidates(t[p])
               IN  [i \in 1 .. Len(L) |-> <<p, L[i]>>])
         \o EdgesFrom(t, p + 1)

\* A record with the two hashes in each other's place.
LogEntrySwapped(us, v) ==
    [PIPE_NAME       |-> v,
     PIPE_CLASS      |-> <<PipeClass(role[v]).module, PipeClass(role[v]).name>>,
     PIPE_PARAM      |-> to_JSON(PipeInstance(v, role[v])),
     UPSTREAM_HASH   |-> HashOf(v),
     DOWNSTREAM_HASH |-> HashOf(us)]

\* One record of the log (its DATE left out).
LogEntry(us, v) ==
    [PIPE_NAME       |-> v,
     PIPE_CLASS      |-> <<PipeClass(role[v]).module, PipeClass(role[v]).name>>,
     PIPE_PARAM      |-> to_JSON(PipeInstance(v, role[v])),
     UPSTREAM_HASH   |-> HashOf(us),
     DOWNSTREAM_HASH |-> HashOf(v)]

log_entries(t) ==
    LET E == EdgesFrom(t, 1)
    IN  [i \in 1 .. Len(E) |-> LogEntry(E[i][1], E[i][2])]

\* Pipeline.__init__, "Generate a log": after the last entry is linked.
LogLineage ==
    /\ phase = "build"
    /\ made = Pipes
    /\ pending = {}
    /\ ~lineage.built
    /\ lineage' = [built |-> TRUE, rows |-> log_entries(topo)]
    /\ UNCHANGED <<runVars, hashVars, made, csv>>

\* start_pipeline: apply_pipe_as_source on the SOURCE pipe, up to the loop.
StartPipeline ==
    /\ phase = "build"
    /\ lineage.built
    /\ IF role[SourcePipe] = "Interface"
       THEN /\ phase' = "run"
            /\ stack' = << Frame("source", SourcePipe, NoHandle, "next",
                                 NonePacket, 0) >>
            /\ err' = err
       ELSE /\ phase' = "raised"
            /\ err' = "NotImplementedError"
            /\ stack' = stack
    /\ UNCHANGED <<role, topo, pending, linked, flow, heap, log, produced,
                   hashVars, orchVars>>


\* ------------------------------------------------------------ source loop
\* What gen.next() can do: yield a well-formed payload, yield one without its
\* 'data', end (StopIteration), or fail with another exception.
SourceOutcomes ==
    (IF produced < MaxPayloads THEN {"payload", "badpayload"} ELSE {})
        \cup {"stop", "fail"}

\* A source loop that checks that link() was called before it asks for a
\* payload.
SourceNextChecked(out) ==
    /\ phase = "run"
    /\ Top.kind = "source"
    /\ Top.pc = "next"
    /\ out \in SourceOutcomes
    /\ LET p == Top.p
           k == produced + 1
           keys == IF out = "payload" THEN {"data", "ax_0", "ax_1"}
                   ELSE {"ax_0", "ax_1"}
           obj == Payload(k, keys, << >>)
           pkt == tag_signal_packet(p, Len(heap) + 1)
       IN
       CASE ~linked[p] ->
              /\ UNCHANGED <<produced, heap, log>>
              /\ Raise("PipeLinkError")
         [] out \in {"payload", "badpayload"} ->
              /\ produced' = k
              /\ heap' = Append(heap, obj)
              /\ IF ~verify_signal_packet(role[p], obj)
                 THEN /\ log' = log \o <<Ev("prod", p, NoHandle, k),
                                         Ev("reject", p, NoHandle, k)>>
                      /\ Raise("SchemaError")
                 ELSE IF ~linked[p]
                 THEN /\ log' = Append(log, Ev("prod", p, NoHandle, k))
                      /\ Raise("PipeLinkError")
                 ELSE /\ log' = log \o <<Ev("prod", p, NoHandle, k),
                                         Ev("emit", p, NoHandle, k)>>
                      /\ stack' = SetTop([Top EXCEPT !.pc = "send", !.i = 1,
                                                     !.pkt = pkt, !.k = k])
                      /\ UNCHANGED <<flow, phase, err>>
         [] out = "stop" ->
              /\ UNCHANGED <<produced, heap>>
              /\ log' = Append(log, Ev("stop", p, NoHandle, produced))
              /\ IF ~linked[p]
                 THEN Raise("AttributeError")
                 ELSE /\ stack' = SetTop([Top EXCEPT !.pc = "closing", !.i = 1])
                      /\ UNCHANGED <<flow, phase, err>>
         [] out = "fail" ->
              /\ UNCHANGED <<produced, heap>>
              /\ log' = Append(log, Ev("fail", p, NoHandle, produced))
              /\ Raise("ProcessingError")
    /\ UNCHANGED <<role, topo, pending, linked, hashVars, orchVars>>

\* apply_pipe_as_source, one turn of the loop up to the first send: next
\* payload, tag, verify, the check that link() was called; or the break on
\* StopIteration, gen.close() and the start of the closing loop.
SourceNext(out) ==
    /\ phase = "run"
    /\ Top.kind = "source"
    /\ Top.pc = "next"
    /\ out \in SourceOutcomes
    /\ LET p == Top.p
           k == produced + 1
           keys == IF out = "payload" THEN {"data", "ax_0", "ax_1"}
                   ELSE {"ax_0", "ax_1"}
           obj == Payload(k, keys, << >>)
           pkt == tag_signal_packet(p, Len(heap) + 1)
       IN
       CASE out \in {"payload", "badpayload"} ->
              /\ produced' = k
              /\ heap' = Append(heap, obj)
              /\ IF ~verify_signal_packet(role[p], obj)
                 THEN /\ log' = log \o <<Ev("prod", p, NoHandle, k),
                                         Ev("reject", p, NoHandle, k)>>
                      /\ Raise("SchemaError")
                 ELSE IF ~linked[p]
                 THEN /\ log' = Append(log, Ev("prod", p, NoHandle, k))
                      /\ Raise("PipeLinkError")
                 ELSE /\ log' = log \o <<Ev("prod", p, NoHandle, k),
                                         Ev("emit", p, NoHandle, k)>>
                      /\ stack' = SetTop([Top EXCEPT !.pc = "send", !.i = 1,
                                                     !.pkt = pkt, !.k = k])
                      /\ UNCHANGED <<flow, phase, err>>
         [] out = "stop" ->
              /\ UNCHANGED <<produced, heap>>
              /\ log' = Append(log, Ev("stop", p, NoHandle, produced))
              /\ IF ~linked[p]
                 THEN Raise("AttributeError")
                 ELSE /\ stack' = SetTop([Top EXCEPT !.pc = "closing", !.i = 1])
                      /\ UNCHANGED <<flow, phase, err>>
         [] out = "fail" ->
              /\ UNCHANGED <<produced, heap>>
              /\ log' = Append(log, Ev("fail", p, NoHandle, produced))
              /\ Raise("ProcessingError")
    /\ UNCHANGED <<role, topo, pending, linked, hashVars, orchVars>>

\* ------------------------------------------------------------ sending loop
\* The position after handle i in a loop over downstream_pipe_flow.
NextSkip(i) == i + 2

NextIndex(i) == i + 1

\* A generator that lets itself be resumed while it runs.
GeneratorSendReentrant(st) ==
    CASE st = "suspended" -> "resume"
      [] st = "closed" -> "StopIteration"
      [] st = "running" -> "resume"

\* A generator that starts over when it is resumed after it has finished.
GeneratorSendRevives(st) ==
    CASE st = "suspended" -> "resume"
      [] st = "closed" -> "resume"
      [] st = "running" -> "ValueError"

\* What send() does to a generator in state st: a suspended one resumes at
\* its yield, a finished one raises StopIteration, one that is executing
\* raises ValueError.
GeneratorSend(st) ==
    CASE st = "suspended" -> "resume"
      [] st = "closed" -> "StopIteration"
      [] st = "running" -> "ValueError"

\* for downstream_pipe in self.downstream_pipe_flow: downstream_pipe.send(..):
\* the send to handle Top.i resumes that coroutine at its yield.
Send ==
    /\ phase = "run"
    /\ Top.pc = "send"
    /\ Top.i <= Len(flow[Top.p])
    /\ LET p == Top.p
           i == Top.i
           hd == flow[p][i]
       IN
       IF GeneratorSend(hd.st) = "resume"
       THEN /\ flow' = [flow EXCEPT ![p][i].st = "running"]
            /\ stack' = Append(stack, Frame("flow", hd.pipe, <<p, i>>,
                                            "resumed", Top.pkt, Top.k))
            /\ log' = Append(log, Ev("recv", hd.pipe, <<p, i>>, Top.k))
            /\ UNCHANGED <<phase, err>>
       ELSE /\ log' = log
            /\ Raise(GeneratorSend(hd.st))
    /\ UNCHANGED <<role, topo, pending, linked, heap, produced, hashVars,
                   orchVars>>

\* The sending loop is over: the source loop asks for the next payload; a
\* flow loop is back at its yield, and its caller's send() returns.
SendDone ==
    /\ phase = "run"
    /\ Top.pc = "send"
    /\ Top.i > Len(flow[Top.p])
    /\ IF Top.kind = "source"
       THEN /\ stack' = SetTop([Top EXCEPT !.pc = "next"])
            /\ UNCHANGED <<flow, log>>
       ELSE /\ flow' = [flow EXCEPT ![Top.h[1]][Top.h[2]].st = "suspended"]
            /\ log' = Append(log, Ev("end", Top.p, Top.h, Top.k))
            /\ stack' = [Below EXCEPT ![Len(Below)].i = NextIndex(@)]
    /\ UNCHANGED <<role, topo, pending, linked, heap, produced, phase, err,
                   hashVars, orchVars>>


\* -------------------------------------------------------------- flow loop
\* The transforms of the Preproc and EdgeTopo pipes write into the packet
\* they are given and return it; the others build a new packet.
InPlace(r) == r \in {"Preproc", "EdgeTopo"}

\* What _pipe_as_flow can do with its argument: return a well-formed packet,
\* return one without its 'data', return nothing, or fail.  A Logger's
\* returns nothing; nothing can be made of a None argument.
TransformOutcomes(r, none) ==
    IF r = "Logger" \/ none THEN {"none", "raise"}
    ELSE {"ok", "bad", "none", "raise"}

\* The heap and the returned payload reference after _pipe_as_flow of pipe p
\* ran on the payload object at ref with outcome out ("ok" or "bad").
Transform(h, p, ref, out) ==
    LET in == h[ref]
        keys == IF InPlace(role[p]) THEN in.keys ELSE RequiredKeys(role[p])
        obj == Payload(in.k,
                       IF out = "ok" THEN keys ELSE keys \ {"data"},
                       Append(in.val, p))
    IN  IF InPlace(role[p])
        THEN [heap |-> [h EXCEPT ![ref] = obj], ref |-> ref]
        ELSE [heap |-> Append(h, obj), ref |-> Len(h) + 1]

\* A Logger that never closes its file.
ResourceKept(r, none, out) ==
    IF r = "Logger" /\ (~none \/ out = "raise") THEN <<"open">> ELSE << >>

\* What _pipe_as_flow does with an external resource, as SaveHDF does with
\* its HDF file: it opens the file, walks the packet, and closes the file
\* before it returns; if the walk fails (as it does on None) the file is
\* left open.  A Logger that returns from None is a Console: no file.
ResourceUse(r, none, out) ==
    IF r = "Logger" /\ ~none /\ out = "none" THEN <<"open", "release">>
    ELSE IF r = "Logger" /\ out = "raise" THEN <<"open">>
    ELSE << >>

\* Whether the packet the transform returned is forwarded as it is: the
\* code retags and verifies it only if it is truthy.
IsTruthy(pkt) == ~pkt.none

\* apply_pipe_as_flow, resumed with a packet, up to the first send: deepcopy,
\* _pipe_as_flow, retag and verify if it returned something, the check that
\* link() was called.
FlowTransform(out) ==
    /\ phase = "run"
    /\ Top.kind = "flow"
    /\ Top.pc = "resumed"
    /\ out \in TransformOutcomes(role[Top.p], Top.pkt.none)
    /\ LET p == Top.p
           in == Top.pkt
           copy == IF in.none THEN [heap |-> heap, ref |-> 0]
                   ELSE DeepCopy(heap, in.ref)
           done == IF out \in {"ok", "bad"}
                   THEN Transform(copy.heap, p, copy.ref, out)
                   ELSE copy
           ret == IF out \in {"ok", "bad"} THEN Envelope(in.key, done.ref)
                  ELSE NonePacket
           use == ResourceUse(role[p], in.none, out)
           begun == Append(log, Ev(IF in.none THEN "beginNone" ELSE "begin",
                                   p, Top.h, Top.k))
                    \o [n \in 1 .. Len(use) |-> Ev(use[n], p, Top.h, Top.k)]
       IN
       /\ heap' = done.heap
       /\ IF out = "raise"
          THEN /\ log' = begun
               /\ Raise("ProcessingError")
          ELSE IF IsTruthy(ret)
                  /\ ~verify_signal_packet(role[p], done.heap[done.ref])
          THEN /\ log' = Append(begun, Ev("reject", p, Top.h, Top.k))
               /\ Raise("SchemaError")
          ELSE IF ~linked[p]
          THEN /\ log' = begun
               /\ Raise("PipeLinkError")
          ELSE /\ log' = Append(begun,
                                Ev(IF IsTruthy(ret) THEN "emit" ELSE "none",
                                   p, Top.h, Top.k))
               /\ stack' = SetTop([Top EXCEPT
                              !.pc = "send", !.i = 1,
                              !.pkt = IF IsTruthy(ret)
                                      THEN retag_signal_packet(p, ret)
                                      ELSE ret])
               /\ UNCHANGED <<flow, phase, err>>
    /\ UNCHANGED <<role, topo, pending, linked, produced, hashVars, orchVars>>

\* ----------------------------------------------------------- closing loop
\* A generator whose close() fails once it has finished.
GeneratorCloseOnce(st) ==
    CASE st = "suspended" -> "GeneratorExit"
      [] st = "closed" -> "StopIteration"
      [] st = "running" -> "ValueError"

\* What close() does to a generator in state st: a suspended one gets
\* GeneratorExit at its yield, a finished one is left alone, one that is
\* executing raises ValueError.
GeneratorClose(st) ==
    CASE st = "suspended" -> "GeneratorExit"
      [] st = "closed" -> "return"
      [] st = "running" -> "ValueError"

\* for downstream_pipe in self.downstream_pipe_flow: downstream_pipe.close():
\* close() of handle Top.i.  A suspended coroutine gets GeneratorExit at its
\* yield, leaves its loop and starts closing its own downstreams; a finished
\* one ignores the close.
Close ==
    /\ phase = "run"
    /\ Top.pc = "closing"
    /\ Top.i <= Len(flow[Top.p])
    /\ LET p == Top.p
           i == Top.i
           hd == flow[p][i]
       IN
       CASE GeneratorClose(hd.st) = "GeneratorExit" ->
              /\ log' = Append(log, Ev("close", hd.pipe, <<p, i>>, Top.k))
              /\ IF ~linked[hd.pipe]
                 THEN /\ flow' = [Unwound(flow) EXCEPT ![p][i].st = "closed"]
                      /\ phase' = "raised"
                      /\ err' = "AttributeError"
                      /\ stack' = << >>
                 ELSE /\ flow' = [flow EXCEPT ![p][i].st = "running"]
                      /\ stack' = Append(stack,
                                    Frame("flow", hd.pipe, <<p, i>>, "closing",
                                          NonePacket, Top.k))
                      /\ UNCHANGED <<phase, err>>
         [] GeneratorClose(hd.st) = "return" ->
              /\ stack' = SetTop([Top EXCEPT !.i = NextIndex(@)])
              /\ UNCHANGED <<flow, log, phase, err>>
         [] OTHER ->
              /\ log' = log
              /\ Raise(GeneratorClose(hd.st))
    /\ UNCHANGED <<role, topo, pending, linked, heap, produced, hashVars,
                   orchVars>>

\* The closing loop is over: a flow coroutine ends and its caller's close()
\* returns; apply_pipe_as_source returns.
CloseDone ==
    /\ phase = "run"
    /\ Top.pc = "closing"
    /\ Top.i > Len(flow[Top.p])
    /\ IF Top.kind = "source"
       THEN /\ stack' = << >>
            /\ phase' = "done"
            /\ log' = Append(log, Ev("return", Top.p, NoHandle, Top.k))
            /\ UNCHANGED flow
       ELSE /\ flow' = [flow EXCEPT ![Top.h[1]][Top.h[2]].st = "closed"]
            /\ log' = Append(log, Ev("closed", Top.p, Top.h, Top.k))
            /\ stack' = [Below EXCEPT ![Len(Below)].i = NextIndex(@)]
            /\ UNCHANGED phase
    /\ UNCHANGED <<role, topo, pending, linked, heap, produced, err,
                   hashVars, orchVars>>

\* A start_pipeline that writes the log before it runs the source loop.
SaveLogFirst ==
    /\ phase = "build"
    /\ lineage.built
    /\ csv = << >>
    /\ csv' = Append(csv, lineage.rows)
    /\ UNCHANGED <<runVars, hashVars, made, lineage>>

\* start_pipeline, after apply_pipe_as_source returned:
\* self.log_entries_df.to_csv(self.log_entries_path)
SaveLog ==
    /\ phase = "done"
    /\ csv = << >>
    /\ csv' = Append(csv, lineage.rows)
    /\ UNCHANGED <<runVars, hashVars, made, lineage>>

\* ------------------------------------------------------------ specification
\* The pipes a topology names, as upstream or as downstream.
Named(t) ==
    {p \in Pipes : t[p] # Absent} \cup
    {q \in Pipes : \E p \in Pipes :
        t[p] # Absent /\ \E i \in 1 .. Len(t[p]) : t[p][i] = q}

\* Every pipe of every role, wired as one of the declared topologies.  The
\* SOURCE is an Interface pipe; a pipe the topology never names is never
\* linked or run, and stands as a Logger.
Init ==
    /\ topo \in Shapes
    /\ role \in {r \in [Pipes -> Roles] :
                   /\ r[SourcePipe] = "Interface"
                   /\ \A p \in Pipes \ (Named(topo) \cup {SourcePipe}) :
                         r[p] = "Logger"}
    /\ pending = {n \in Names : topo[n] # Absent}
    /\ linked = [p \in Pipes |-> FALSE]
    /\ flow = [p \in Pipes |-> << >>]
    /\ stack = << >>
    /\ heap = << >>
    /\ log = << >>
    /\ produced = 0
    /\ phase = "build"
    /\ err = ""
    /\ insts = << >>
    /\ hashes = << >>
    /\ made = {}
    /\ lineage = [built |-> FALSE, rows |-> << >>]
    /\ csv = << >>

Next ==
    \/ Instantiate
    \/ \E n \in Names : Link(n)
    \/ LogLineage
    \/ StartPipeline
    \/ \E out \in {"payload", "badpayload", "stop", "fail"} : SourceNext(out)
    \/ Send
    \/ SendDone
    \/ \E out \in {"ok", "bad", "none", "raise"} : FlowTransform(out)
    \/ Close
    \/ CloseDone
    \/ SaveLog

Spec == Init /\ [][Next]_vars


\* ================================================================ claims
\* ------------------------------------------------------- reading the log
AllHandles == UNION {{<<p, i>> : i \in 1 .. Len(flow[p])} : p \in Pipes}

\* The positions up to n at which handle g has an event of kind t.
At(t, g, n) == {m \in 1 .. n : log[m].t = t /\ log[m].h = g}

Count(t, g) == Cardinality(At(t, g, Len(log)))

\* The handles that were resumed with a packet and are not yet back at
\* their yield.
OpenHandles ==
    {g \in AllHandles : Count("recv", g) > Count("end", g)}

LastEv == log[Len(log)]

\* The transform invocations so far, as <<pipe, payload ordinal>>.
Begun ==
    LET sel == SelectSeq(log, LAMBDA e : e.t \in {"begin", "beginNone"})
    IN  [n \in 1 .. Len(sel) |-> <<sel[n].p, sel[n].k>>]

FanOutShape == Shape(<< <<2, 3>>, << >>, << >> >>)
DeepFanOutShape == Shape(<< <<2, 3>>, <<4>>, << >>, << >> >>)
FlowFanOutShape == Shape(<< <<2>>, <<3, 4>>, << >>, << >> >>)
ChainShape == Shape(<< <<2>>, <<3>>, <<4>>, << >> >>)

\* C1: fan-out is ordered and depth-first.  Payload ordinals never go back
\* in the log; when handle j of a pipe is resumed with payload k, every
\* handle before it in the list has received k and is back at its yield, and
\* the only handles still processing are the chain of callers of the one
\* resumed; when a payload is produced no handle is processing; and a Source
\* linked to Sinks A and B that produced P1, P2 ran A:P1, B:P1, A:P2, B:P2.
C1_OrderedFanOut ==
    /\ \A n, m \in 1 .. Len(log) : n < m => log[n].k <= log[m].k
    /\ (Len(log) > 0 /\ LastEv.t = "recv") =>
         LET p == LastEv.h[1]
             j == LastEv.h[2]
         IN  /\ \A i \in 1 .. (j - 1) :
                   /\ \E m \in At("recv", <<p, i>>, Len(log)) :
                          log[m].k = LastEv.k
                   /\ Count("end", <<p, i>>) = Count("recv", <<p, i>>)
             /\ OpenHandles = {stack[n].h : n \in 2 .. Len(stack)}
             /\ \A n \in 2 .. Len(stack) : stack[n].h[1] = stack[n - 1].p
    /\ \A n \in 1 .. Len(log) :
         log[n].t = "prod" =>
           \A g \in AllHandles :
              Cardinality(At("recv", g, n)) = Cardinality(At("end", g, n))
    /\ (/\ topo = FanOutShape
        /\ role[2] = "Logger"
        /\ role[3] = "Logger"
        /\ phase = "done"
        /\ produced = 2)
         => Begun = << <<2, 1>>, <<3, 1>>, <<2, 2>>, <<3, 2>> >>

\* C1 witness: in the deeper fan-out the second downstream of the source is
\* resumed with the second payload after the first branch, two pipes deep,
\* has finished it.
C1_Witness ==
    /\ topo = DeepFanOutShape
    /\ Len(log) > 0
    /\ LastEv = Ev("recv", 3, <<1, 2>>, 2)
    /\ \E m \in At("end", <<2, 1>>, Len(log)) : log[m].k = 2


\* ------------------------------------------------------ shapes of graphs
\* How many times pipe q is named as a downstream.
InDegree(t, q) ==
    Cardinality(UNION {{<<p, i>> : i \in {i \in 1 .. Len(t[p]) : t[p][i] = q}}
                       : p \in {p \in Pipes : t[p] # Absent}})

\* A tree below the source: nothing links to the source and no pipe is the
\* downstream of two links.
TreeShaped(t) ==
    /\ InDegree(t, SourcePipe) = 0
    /\ \A q \in Pipes : InDegree(t, q) <= 1

\* Every pipe the topology names has an entry of its own, so link() is
\* called on it.
FullyLinked(t) ==
    \A p \in Named(t) \cup {SourcePipe} : t[p] # Absent

Stopped == \E n \in 1 .. Len(log) : log[n].t = "stop"

\* C2: graceful shutdown.  In a fully linked tree, once production is
\* exhausted no error is raised, the closing loops can always go on, no handle
\* observes a second close, and when the source loop has returned every
\* handle has observed exactly one close and has ended exactly once, after
\* each handle of its own pipe's list had ended.
C2_GracefulShutdown ==
    (TreeShaped(topo) /\ FullyLinked(topo) /\ Stopped) =>
        /\ phase \in {"run", "done"}
        /\ phase = "run" => ENABLED (Close \/ CloseDone)
        /\ \A g \in AllHandles :
              /\ Count("close", g) <= 1
              /\ Count("closed", g) <= Count("close", g)
              /\ \A m \in At("closed", g, Len(log)) :
                    \A i \in 1 .. Len(flow[flow[g[1]][g[2]].pipe]) :
                       \E m2 \in 1 .. (m - 1) :
                          /\ log[m2].t = "closed"
                          /\ log[m2].h = <<flow[g[1]][g[2]].pipe, i>>
        /\ phase = "done" =>
              /\ stack = << >>
              /\ \A g \in AllHandles :
                    /\ Count("close", g) = 1
                    /\ Count("closed", g) = 1
                    /\ flow[g[1]][g[2]].st = "closed"

\* C2 witness: the source loop has returned in the tree where a flow pipe
\* fans out to two terminals, after both payloads.
C2_Witness ==
    /\ topo = FlowFanOutShape
    /\ phase = "done"
    /\ produced = 2
    /\ Count("closed", <<2, 2>>) = 1

\* C3: isolation.  The payload a loop is sending keeps the content its pipe
\* emitted (its data written by exactly the pipes of the loops on the stack
\* up to that one), and the payload a handle is resumed with has the content
\* its upstream emitted, whatever transforms ran in between.
Writers(n) == [j \in 1 .. (n - 1) |-> stack[j + 1].p]

C3_Isolation ==
    \A n \in 1 .. Len(stack) :
       LET f == stack[n] IN
       (~f.pkt.none /\ f.pc \in {"send", "resumed"}) =>
          /\ f.pkt.ref \in 1 .. Len(heap)
          /\ heap[f.pkt.ref].val =
                Writers(IF f.pc = "send" THEN n ELSE n - 1)

\* C3 witness: the second branch of a fan-out is resumed with a payload
\* after the first branch, a Preproc pipe, has transformed its copy of it
\* in place.
C3_Witness ==
    /\ topo = FlowFanOutShape
    /\ role[3] = "Preproc"
    /\ Len(stack) = 3
    /\ Top.pc = "resumed"
    /\ Top.h = <<2, 2>>
    /\ \E m \in 1 .. Len(log) : log[m] = Ev("emit", 3, <<2, 1>>, Top.k)

\* C4: schema enforcement.  A packet that fails its emitter's verification
\* ends the run with that error on the spot, nothing is delivered after it,
\* and every packet a handle is resumed with holds the keys its upstream's
\* role requires.
C4_SchemaEnforcement ==
    /\ \A n \in 1 .. Len(log) :
          log[n].t = "reject" =>
             /\ n = Len(log)
             /\ phase = "raised"
             /\ err = "SchemaError"
             /\ stack = << >>
    /\ \A n \in 2 .. Len(stack) :
          LET f == stack[n] IN
          (~f.pkt.none /\ f.pc = "resumed") =>
             RequiredKeys(role[f.h[1]]) \subseteq heap[f.pkt.ref].keys

\* C4 witness: a Preproc pipe with a linked downstream rejected the packet
\* its transform returned, and that downstream has received nothing.
C4_Witness ==
    /\ topo = ChainShape
    /\ role[2] = "Preproc"
    /\ Len(log) > 0
    /\ LastEv = Ev("reject", 2, <<1, 1>>, 1)
    /\ Len(flow[2]) = 1
    /\ Count("recv", <<2, 1>>) = 0


\* The role table as the specification states it (section 4.1); a Sink may
\* link to nothing.
SpecRoleTable(r) ==
    CASE r \in {"Interface", "Preproc"} -> {"Preproc", "Adjacency", "Logger"}
      [] r = "Adjacency" -> {"GlobalTopo", "NodeTopo", "EdgeTopo", "Logger"}
      [] r \in {"GlobalTopo", "NodeTopo", "EdgeTopo"} -> {"Logger"}
      [] OTHER -> {}

\* The pipes of the handles of a downstream_pipe_flow list, in order.
HandlePipes(p) == [i \in 1 .. Len(flow[p]) |-> flow[p][i].pipe]

\* The first candidate of L whose role is not in the set allowed, or
\* Len(L) + 1 if there is none.
FirstBad(L, allowed) ==
    LET bad == {i \in 1 .. Len(L) : role[L[i]] \notin allowed}
    IN  IF bad = {} THEN Len(L) + 1
        ELSE CHOOSE i \in bad : \A j \in bad : i <= j

\* C5 (as claimed): for every upstream pipe, link() names the first downstream
\* whose role is outside the allowed set in a PipeLinkError, and with only
\* valid roles it stores one handle per downstream, in order.
C5_LinkEnforcement ==
    \A p \in Pipes :
       linked[p] =>
          LET L == RealCandidates(topo[p])
              b == FirstBad(L, SpecRoleTable(role[p]))
          IN  IF b <= Len(L)
              THEN phase = "raised" /\ err = "PipeLinkError"
              ELSE HandlePipes(p) = L

\* C6 (as claimed): a transform result of nothing is dropped, so no handle is
\* ever resumed with it.
C6_DropNotForwarded ==
    \A n \in 1 .. Len(stack) :
       stack[n].pc = "resumed" => ~stack[n].pkt.none

\* A linear chain: a fully linked tree in which every pipe has at most one
\* downstream and the source has one.
Linear(t) ==
    /\ TreeShaped(t)
    /\ FullyLinked(t)
    /\ Len(RealCandidates(t[SourcePipe])) = 1
    /\ \A p \in Pipes : t[p] # Absent => Len(RealCandidates(t[p])) <= 1

\* The last pipe of a linear chain.
ChainEnd(t) ==
    CHOOSE q \in Named(t) \ {SourcePipe} : RealCandidates(t[q]) = << >>

\* No transform before the end of the chain has returned nothing.
NonDropping(t) ==
    \A n \in 1 .. Len(log) :
       /\ log[n].t # "beginNone"
       /\ log[n].t = "none" => log[n].p = ChainEnd(t)

\* C7: end-to-end delivery in a linear chain of non-dropping pipes.  The last
\* pipe's consumption runs once per payload, in production order; whenever
\* the production routine is asked for the next payload, and when it is
\* exhausted, every payload yielded so far has been consumed to the end.
C7_EndToEnd ==
    (Linear(topo) /\ NonDropping(topo)) =>
       LET sink == ChainEnd(topo)
           seen == SelectSeq(Begun, LAMBDA b : b[1] = sink)
           ends == Cardinality({n \in 1 .. Len(log) :
                                  log[n].t = "end" /\ log[n].p = sink})
       IN  /\ seen = [n \in 1 .. Len(seen) |-> <<sink, n>>]
           /\ Len(seen) <= produced
           /\ (phase = "done" \/ (phase = "run" /\ stack[1].pc # "send")) =>
                 /\ Len(seen) = produced
                 /\ ends = produced

\* C7 witness: the chain of four has consumed both payloads at its end and
\* the source loop has returned.
C7_Witness ==
    /\ topo = ChainShape
    /\ NonDropping(topo)
    /\ phase = "done"
    /\ produced = 2
    /\ SelectSeq(Begun, LAMBDA b : b[1] = 4) = << <<4, 1>>, <<4, 2>> >>

C10_SinkLinkRefused ==
    \A p \in Pipes :
       (role[p] = "Logger" /\ linked[p] /\ RealCandidates(topo[p]) # << >>) =>
           (phase = "raised" /\ err = "PipeLinkError")


\* ==================================================== identity of instances
\* to_hash on its own: two instances are constructed from keyword arguments
\* and to_hash is called on them, in any order and repeatedly.
MaxHashCalls == 2

\* to_hash reads of a class only its module, its name and the argument names
\* of __init__.  Three classes declaring __init__(self, pipe_name, cache):
\* two of the same name in different modules and a third in the module of
\* the first.
HashParams == {"pipe_name", "cache"}

HashClasses ==
    { [module |-> "dyne.nodemetric.centrality", name |-> "DriveSync",
       params |-> <<"pipe_name", "cache">>],
      [module |-> "dyne.edgemetric.centrality", name |-> "DriveSync",
       params |-> <<"pipe_name", "cache">>],
      [module |-> "dyne.nodemetric.centrality", name |-> "Eigenvector",
       params |-> <<"pipe_name", "cache">>] }

ParamValues ==
    { [t |-> "int", v |-> 1], [t |-> "str", v |-> "1"],
      [t |-> "list", v |-> <<1>>], [t |-> "tuple", v |-> <<1>>] }

\* The keyword arguments of a call cls(**kw): each declared parameter once,
\* in either order.
KwArgs(cls) ==
    LET names == { get_param_var(cls)[i] : i \in 1 .. Len(get_param_var(cls)) }
    IN  { kw \in { << [name |-> n1, val |-> v1], [name |-> n2, val |-> v2] >> :
                      n1 \in names, n2 \in names,
                      v1 \in ParamValues, v2 \in ParamValues } :
            kw[1].name # kw[2].name }

InitHash ==
    /\ topo = Shape(<< << >> >>)
    /\ role = [p \in Pipes |-> IF p = SourcePipe THEN "Interface" ELSE "Logger"]
    /\ pending = {}
    /\ linked = [p \in Pipes |-> FALSE]
    /\ flow = [p \in Pipes |-> << >>]
    /\ stack = << >>
    /\ heap = << >>
    /\ log = << >>
    /\ produced = 0
    /\ phase = "hash"
    /\ err = ""
    /\ insts = << >>
    /\ hashes = << >>
    /\ made = {}
    /\ lineage = [built |-> FALSE, rows |-> << >>]
    /\ csv = << >>

\* inst = cls(**kw); the arguments as supplied are kept beside the instance.
NewInstance(cls, kw) ==
    /\ Len(insts) < 2
    /\ insts' = Append(insts, [obj |-> Construct(cls, kw), kw |-> kw])
    /\ UNCHANGED <<hashes, runVars, orchVars>>

\* h = insts[i].to_hash()
CallHash(i) ==
    /\ i \in 1 .. Len(insts)
    /\ Len(hashes) < MaxHashCalls
    /\ hashes' = Append(hashes, [i |-> i, h |-> to_hash(insts[i].obj)])
    /\ UNCHANGED <<insts, runVars, orchVars>>

NextHash ==
    \/ \E cls \in HashClasses : \E kw \in KwArgs(cls) : NewInstance(cls, kw)
    \/ \E i \in 1 .. 2 : CallHash(i)

SpecHash == InitHash /\ [][NextHash]_vars

SameType(x, y) ==
    x.obj.cls.module = y.obj.cls.module /\ x.obj.cls.name = y.obj.cls.name

\* The value supplied for parameter n.
Supplied(x, n) == x.kw[CHOOSE i \in 1 .. Len(x.kw) : x.kw[i].name = n].val

SameParams(x, y) ==
    \A n \in HashParams : Supplied(x, n) = Supplied(y, n)

SameJSON(x, y) ==
    \A n \in HashParams : JSONValue(Supplied(x, n)) = JSONValue(Supplied(y, n))

LoggerHandles == {g \in AllHandles : role[flow[g[1]][g[2]].pipe] = "Logger"}

C12_CloseOnProductionError ==
    (phase = "raised" /\ Len(log) > 0 /\ LastEv.t = "fail") =>
       \A i \in 1 .. Len(flow[SourcePipe]) :
          Count("close", <<SourcePipe, i>>) = 1

\* Neither the production routine nor a transform has failed, and no packet
\* was refused by a verification.
NoFailure == \A n \in 1 .. Len(log) : log[n].t \notin {"fail", "reject"}

\* C13 (as claimed): a source loop run on a pipe that was never linked ends
\* in a PipeLinkError whether the production routine yields a payload or
\* none at all, and a packet delivered to the flow loop of a pipe that was
\* never linked ends in a PipeLinkError with nothing forwarded.
C13_LinkBeforeRun ==
    /\ (~linked[SourcePipe] /\ Len(log) > 0 /\ NoFailure) =>
          (phase = "raised" /\ err = "PipeLinkError")
    /\ \A n \in 1 .. Len(log) :
          (log[n].t = "begin" /\ ~linked[log[n].p] /\ NoFailure) =>
             /\ n < Len(log) => (phase = "raised" /\ err = "PipeLinkError")
             /\ \A m \in 1 .. Len(log) :
                   log[m].t = "recv" => log[m].h[1] # log[n].p

\* C14 (as claimed): a pipe that the topology names only as a downstream is
\* a terminal pipe: neither a packet nor the close signal delivered to it
\* makes the run end in an error about its missing link.
C14_TerminalByOmission ==
    (/\ phase = "raised"
     /\ Len(log) > 0
     /\ LastEv.p # SourcePipe
     /\ topo[LastEv.p] = Absent) =>
        err \notin {"PipeLinkError", "AttributeError"}

\* ------------------------------------------------------------- envelopes
\* C15 (as claimed): whatever a handle is resumed with is an envelope keyed
\* by the identity hash of the pipe that sent it, around the payload that
\* pipe produced.
C15_EnvelopeInvariant ==
    \A n \in 2 .. Len(stack) :
       LET f == stack[n] IN
       f.pc = "resumed" =>
          /\ ~f.pkt.none
          /\ f.pkt.key = HashOf(f.h[1])
          /\ f.pkt.ref \in 1 .. Len(heap)
          /\ f.pkt = stack[n - 1].pkt

\* C16 (as claimed): in any graph that was built, once the production routine
\* is exhausted the close propagation raises nothing, and when the source
\* loop has returned every handle has observed the close.
C16_CloseCompletes ==
    Stopped =>
       /\ phase # "raised"
       /\ phase = "done" => \A g \in AllHandles : Count("close", g) >= 1

\* ---------------------------------------------------------- lineage log
\* The declared edges, as the positions <<upstream, index>> of the topology
\* that name a pipe.
DeclaredEdges(t) ==
    UNION {{<<p, i>> : i \in {i \in 1 .. Len(t[p]) : t[p][i] # NoPipe}}
           : p \in {p \in Pipes : t[p] # Absent}}

\* What the record of the edge at position e must say.
EdgeFacts(t, e) ==
    [name |-> t[e[1]][e[2]],
     up   |-> to_hash(PipeInstance(e[1], role[e[1]])),
     down |-> to_hash(PipeInstance(t[e[1]][e[2]], role[t[e[1]][e[2]]]))]

RowFacts(row) ==
    [name |-> row.PIPE_NAME, up |-> row.UPSTREAM_HASH,
     down |-> row.DOWNSTREAM_HASH]

\* C17: lineage completeness.  Once the log is built it has as many records
\* as the topology has declared edges, and for every combination of
\* downstream name, upstream hash and downstream hash exactly as many records
\* as there are declared edges with that downstream and those instances.
C17_LineageComplete ==
    lineage.built =>
       LET E == DeclaredEdges(topo)
           R == 1 .. Len(lineage.rows)
       IN  /\ Len(lineage.rows) = Cardinality(E)
           /\ \A n \in R :
                 \E e \in E : RowFacts(lineage.rows[n]) = EdgeFacts(topo, e)
           /\ \A e \in E :
                 Cardinality({n \in R : RowFacts(lineage.rows[n])
                                          = EdgeFacts(topo, e)})
                   = Cardinality({d \in E : EdgeFacts(topo, d)
                                              = EdgeFacts(topo, e)})

\* C17 witness: the log of a topology that names the same downstream twice
\* and has one more edge holds three records.
C17_Witness ==
    /\ lineage.built
    /\ topo[SourcePipe] = <<2, 2>>
    /\ Len(lineage.rows) = 3

\* The source loop has returned.
Returned == Len(log) > 0 /\ LastEv.t = "return"

\* C18: lineage persistence.  The log is written at most once, and only when
\* the source loop has returned; what is written is the log as it was built,
\* one record per declared edge; nothing is written before the run starts,
\* while it processes or after it was aborted; and once the source loop has
\* returned the write is the step that follows.
C18_LineagePersistence ==
    /\ Len(csv) <= 1
    /\ csv # << >> =>
          /\ phase = "done"
          /\ Returned
          /\ csv[1] = lineage.rows
    /\ lineage.built =>
          /\ lineage.rows = log_entries(topo)
          /\ Len(lineage.rows) = Cardinality(DeclaredEdges(topo))
    /\ (phase # "done" \/ ~Returned) => csv = << >>
    /\ (phase = "done" /\ csv = << >>) => ENABLED SaveLog

\* C18 witness: after a run of two payloads through a chain the log was
\* written, with its three records.
C18_Witness ==
    /\ topo = ChainShape
    /\ produced = 2
    /\ Len(csv) = 1
    /\ Len(csv[1]) = 3

\* ------------------------------------------------------------ graph build
\* The topology names, as upstream or as downstream, a pipe that the pipe
\* definitions do not declare.
UsesUndeclared(t) ==
    \/ t[Undeclared] # Absent
    \/ \E p \in Pipes :
          t[p] # Absent /\ \E i \in 1 .. Len(t[p]) : t[p][i] = Undeclared

\* C19 (as claimed): a topology that names an undeclared pipe is rejected
\* with a ConfigurationError before any pipe is instantiated or linked, and
\* no run starts.
C19_UndeclaredRejected ==
    UsesUndeclared(topo) =>
       /\ made = {}
       /\ \A p \in Pipes : ~linked[p]
       /\ phase \in {"build", "raised"}
       /\ phase = "raised" => err = "ConfigurationError"

\* The downstream_pipe_flow list that the entry of pipe p stands for: a
\* fresh handle for every real candidate, in declared order.
DeclaredFlow(p) ==
    LET L == RealCandidates(topo[p])
    IN  [i \in 1 .. Len(L) |-> [pipe |-> L[i], st |-> "suspended"]]

\* C20: link-order independence.  No pipe is linked before every declared
\* pipe is instantiated; while the graph is built each linked pipe holds the
\* handles of its own entry, whichever entries were linked before it and
\* whether or not its downstreams are linked yet; and when the last entry is
\* linked the state the run starts from is the same for every order.
C20_LinkOrderIndependence ==
    /\ (\E p \in Pipes : linked[p]) => made = Pipes
    /\ phase = "build" =>
          /\ \A p \in Pipes :
                /\ linked[p] => (topo[p] # Absent /\ flow[p] = DeclaredFlow(p))
                /\ ~linked[p] => flow[p] = << >>
          /\ pending = {} => \A p \in Pipes : linked[p] <=> topo[p] # Absent
          /\ stack = << >> /\ heap = << >> /\ log = << >> /\ produced = 0

\* C20 witness: in the chain the source holds a handle of pipe 2 while pipe
\* 2 is not linked yet and pipe 3 already is.
C20_Witness ==
    /\ topo = ChainShape
    /\ phase = "build"
    /\ flow[SourcePipe] = DeclaredFlow(SourcePipe)
    /\ linked[SourcePipe]
    /\ ~linked[2] /\ 2 \in pending
    /\ linked[3]

\* ---------------------------------------------------- failures in a run
\* The run was ended by an error raised inside the flow loop of pipe p while
\* it processed a packet: its transform failed, its result was refused by
\* the verification, or the pipe was found unlinked.
FailedInFlow(p) ==
    /\ phase = "raised"
    /\ err \in {"ProcessingError", "SchemaError", "PipeLinkError"}
    /\ Len(log) > 0
    /\ LastEv.h # NoHandle
    /\ LastEv.p = p
    /\ LastEv.t \in {"begin", "beginNone", "open", "release", "reject"}

\* C21 (as claimed): when an error is raised inside a flow pipe that is
\* processing a packet, every downstream handle of that pipe has observed a
\* close by the time the error has left the run.
C21_ErrorCascadesClose ==
    \A p \in Pipes :
       (FailedInFlow(p) /\ linked[p]) =>
          \A i \in 1 .. Len(flow[p]) : Count("close", <<p, i>>) >= 1

\* The event at position n of the log is the last one of an operation that
\* failed: a refused packet, a failed production, a payload that was produced
\* but not emitted, or a transform that was begun and did not come to emit
\* or drop its result.
FailureAt(n) ==
    LET e == log[n]
        last == n = Len(log)
        nx == log[n + 1]
    IN  \/ e.t \in {"reject", "fail"}
        \/ /\ e.t = "prod"
           /\ (last \/ nx.t \notin {"emit", "reject"})
        \/ /\ e.t \in {"begin", "beginNone"}
           /\ (last \/ nx.h # e.h
                    \/ nx.t \notin {"open", "emit", "none", "reject"})
        \/ /\ e.t = "open"
           /\ (last \/ nx.h # e.h \/ nx.t # "release")
        \/ /\ e.t = "release"
           /\ (last \/ nx.h # e.h \/ nx.t \notin {"emit", "none", "reject"})

\* C22: failures surface immediately and are not retried.  A failure is the
\* last thing that happens in a run: the error has left every running loop,
\* nothing is delivered, produced or invoked after it, and no step of the
\* run is possible any more.
C22_FailFast ==
    /\ \A n \in 1 .. Len(log) :
          FailureAt(n) =>
             /\ n = Len(log)
             /\ phase = "raised"
             /\ stack = << >>
             /\ err \in {"ProcessingError", "SchemaError", "PipeLinkError"}
    /\ phase = "raised" => ~ENABLED Next

\* C22 witness: the transform of the first Sink of a fan-out failed on the
\* first payload; the second Sink has received nothing.
C22_Witness ==
    /\ topo = FanOutShape
    /\ phase = "raised"
    /\ err = "ProcessingError"
    /\ Len(log) > 0
    /\ LastEv.h = <<1, 1>>
    /\ LastEv.k = 1
    /\ Count("recv", <<1, 2>>) = 0
    /\ Len(flow[SourcePipe]) = 2

\* The handles that, in the first n events, were resumed with a packet and
\* had not come back to their yield.
OpenAt(n) ==
    {g \in AllHandles :
        Cardinality(At("recv", g, n)) > Cardinality(At("end", g, n))}

\* C23: close ordering.  A handle observes the close only after production
\* has stopped, when no handle is processing a packet, and nothing is
\* delivered or transformed after the first close; the handle of a pipe below
\* the source is closed from the closing loop of a consumer of its upstream
\* pipe that has observed the close and has not ended yet; the handles before
\* it in the same list have observed the close and ended before; and a
\* consumer ends only when every handle of its pipe's list has observed the
\* close.
C23_CloseOrdering ==
    \A n \in 1 .. Len(log) :
       /\ log[n].t = "close" =>
             /\ \E m \in 1 .. n - 1 : log[m].t = "stop"
             /\ OpenAt(n) = {}
             /\ \A m \in n + 1 .. Len(log) :
                   log[m].t \in {"close", "closed", "return"}
             /\ log[n].h[1] # SourcePipe =>
                   \E m \in 1 .. n - 1 :
                      /\ log[m].t = "close"
                      /\ log[m].p = log[n].h[1]
                      /\ At("closed", log[m].h, n) = {}
             /\ \A j \in 1 .. log[n].h[2] - 1 :
                   At("closed", <<log[n].h[1], j>>, n) # {}
       /\ log[n].t = "closed" =>
             \A i \in 1 .. Len(flow[log[n].p]) :
                At("close", <<log[n].p, i>>, n) # {}

\* C23 witness: the source of a deep fan-out returned after both of its
\* branches, one of them two pipes deep, observed the close and ended.
C23_Witness ==
    /\ topo = DeepFanOutShape
    /\ phase = "done"
    /\ produced >= 1
    /\ \A g \in {<<1, 1>>, <<2, 1>>, <<1, 2>>} : Count("closed", g) = 1

\* The pipes that topology t declares directly below pipe p.
Succ(t, p) ==
    IF t[p] = Absent THEN {}
    ELSE {t[p][i] : i \in 1 .. Len(t[p])} \cap Pipes

RECURSIVE Descendants(_, _, _)
Descendants(t, S, n) ==
    IF n = 0 THEN S
    ELSE Descendants(t, S \cup UNION {Succ(t, q) : q \in S}, n - 1)

\* The pipes below p, at any depth.
Reach(t, p) == Descendants(t, Succ(t, p), NPipes)

\* Some pipe at or below the source is below itself.
Cyclic(t) ==
    \E p \in {SourcePipe} \cup Reach(t, SourcePipe) : p \in Reach(t, p)

JoinShape == Shape(<< <<2, 3>>, <<3>>, <<4>>, << >> >>)
TwiceShape == Shape(<< <<2, 2>>, <<3>>, << >> >>)

\* C24: a second close is a no-op.  In a fully linked topology without
\* cycles in which some pipe is the downstream of two links, shutdown raises
\* no error and can always go on; no handle observes the close twice or ends
\* twice, although the handles of a pipe with two consumers are closed from
\* both; and when the source loop has returned every handle has observed
\* the close exactly once.
C24_SecondCloseNoOp ==
    (FullyLinked(topo) /\ ~Cyclic(topo) /\ ~TreeShaped(topo) /\ Stopped) =>
        /\ phase \in {"run", "done"}
        /\ phase = "run" => ENABLED (Close \/ CloseDone)
        /\ \A g \in AllHandles :
              /\ Count("close", g) <= 1
              /\ Count("closed", g) <= 1
        /\ phase = "done" =>
              \A g \in AllHandles :
                 /\ flow[g[1]][g[2]].st = "closed"
                 /\ Count("close", g) = 1
                 /\ Count("closed", g) = 1
                 /\ \A i \in 1 .. Len(flow[flow[g[1]][g[2]].pipe]) :
                       \E m \in At("closed", <<flow[g[1]][g[2]].pipe, i>>,
                                   Len(log)) :
                          \A m2 \in At("closed", g, Len(log)) : m < m2

\* C24 witness: pipe 3 is linked below the source and below pipe 2; both of
\* its consumers have ended, the second after the first had closed the one
\* handle of pipe 4, and the source loop has returned.
C24_Witness ==
    /\ topo = JoinShape
    /\ phase = "done"
    /\ Count("closed", <<2, 1>>) = 1
    /\ Count("closed", <<1, 2>>) = 1
    /\ Count("close", <<3, 1>>) = 1
    /\ \E m \in At("closed", <<3, 1>>, Len(log)) :
          \E m2 \in At("close", <<1, 2>>, Len(log)) : m < m2

CycleShape == Shape(<< <<2>>, <<3>>, <<2>> >>)
SelfShape == Shape(<< <<2>>, <<2, 3>>, << >> >>)

Stage(r) ==
    CASE r = "Interface" -> 0
      [] r = "Preproc" -> 1
      [] r = "Adjacency" -> 2
      [] r \in {"GlobalTopo", "NodeTopo", "EdgeTopo"} -> 3
      [] r = "Logger" -> 4

\* C26: the shape of every accepted graph.  When every link() call of the
\* build succeeded, each pipe holds a handle for each of its declared
\* downstreams; no handle is a consumer of an Interface pipe; the handles of
\* an aggregate pipe are consumers of Loggers only and a Logger has none; the
\* stage of the roles goes strictly up along every link except from Preproc
\* to Preproc, so a path reads Source, Transforms, at most one Association,
\* at most one Aggregate, at most one Sink; and every pipe that is below
\* itself is a Preproc pipe.
C26_AcceptedShape ==
    lineage.built =>
        /\ \A p \in Pipes :
              linked[p] => HandlePipes(p) = RealCandidates(topo[p])
        /\ \A g \in AllHandles :
              LET up == role[g[1]]
                  down == role[flow[g[1]][g[2]].pipe]
              IN  /\ down # "Interface"
                  /\ up # "Logger"
                  /\ Stage(up) = 3 => down = "Logger"
                  /\ \/ Stage(up) < Stage(down)
                     \/ up = "Preproc" /\ down = "Preproc"
        /\ \A p \in Pipes : p \in Reach(topo, p) => role[p] = "Preproc"

\* C26 witness: the chain Interface, Preproc, Adjacency, NodeTopo was
\* accepted.
C26_Witness ==
    /\ topo = ChainShape
    /\ lineage.built
    /\ role[2] = "Preproc" /\ role[3] = "Adjacency" /\ role[4] = "NodeTopo"
    /\ HandlePipes(1) = <<2>> /\ HandlePipes(2) = <<3>>
    /\ HandlePipes(3) = <<4>>

\* The run, not the build, ended with the link-before-run error.
LinkErrorInRun ==
    /\ lineage.built
    /\ phase = "raised"
    /\ err = "PipeLinkError"

\* C28: the link check is late.  A run never ends before the source was asked
\* for a payload; when it ends with the link error the log is not empty and
\* its last event belongs to a pipe that was never linked: for the source it
\* is the production of a payload, which is on the heap and passed the
\* verification; for a flow pipe it is the start of its transform on the
\* packet it received or, for a Logger given a packet, the release of the
\* file it wrote; and a packet received is always followed by the transform.
C28_LateLinkCheck ==
    /\ (lineage.built /\ log = << >>) => phase \in {"build", "run"}
    /\ LinkErrorInRun =>
          /\ Len(log) > 0
          /\ ~linked[LastEv.p]
          /\ LastEv.h = NoHandle =>
                /\ LastEv.t = "prod"
                /\ LastEv.p = SourcePipe
                /\ produced = LastEv.k
                /\ Len(heap) >= 1
                /\ verify_signal_packet(role[SourcePipe], heap[Len(heap)])
          /\ LastEv.h # NoHandle =>
                /\ LastEv.t \in {"begin", "beginNone", "release"}
                /\ Count("recv", LastEv.h) = 1
                /\ (role[LastEv.p] = "Logger" /\ LastEv.t # "beginNone") =>
                      /\ LastEv.t = "release"
                      /\ Count("open", LastEv.h) = 1
    /\ \A n \in 1 .. Len(log) :
          log[n].t = "recv" =>
             \/ n = Len(log) /\ phase = "run"
             \/ /\ n < Len(log)
                /\ log[n + 1].t \in {"begin", "beginNone"}
                /\ log[n + 1].h = log[n].h

\* C28 witness: a Logger that was never linked received the first packet,
\* wrote it to its file, and then the link error was raised.
C28_Witness ==
    /\ LinkErrorInRun
    /\ Len(log) > 0
    /\ role[LastEv.p] = "Logger"
    /\ LastEv.t = "release"
    /\ LastEv.k = 1
    /\ ~linked[LastEv.p]

\* C28, the source's side: a source that was never linked produced its first
\* payload before the link error was raised.
C28_SourceWitness ==
    /\ LinkErrorInRun
    /\ ~linked[SourcePipe]
    /\ Len(log) = 1
    /\ LastEv.t = "prod"

\* The declared downstreams of pipe p, in order.
Kids(t, p) == IF t[p] = Absent THEN << >> ELSE RealCandidates(t[p])

RECURSIVE Walk(_, _)
\* The pipes met on the paths that start with a pipe of L, depth first, a
\* pipe once for each path that leads to it.
Walk(t, L) ==
    IF L = << >> THEN << >>
    ELSE <<Head(L)>> \o Walk(t, Kids(t, Head(L))) \o Walk(t, Tail(L))

\* The pipes whose transform was applied to payload k, in the order of the
\* log.
BegunWith(k) ==
    LET sel == SelectSeq(Begun, LAMBDA b : b[2] = k)
    IN  [n \in 1 .. Len(sel) |-> sel[n][1]]

IsPrefix(a, b) == Len(a) <= Len(b) /\ a = SubSeq(b, 1, Len(a))

\* C30: one consumer per link, not per pipe.  In an accepted graph, cycles
\* or not, a pipe has as many consumers as there are links to it.  In a fully
\* linked graph without cycles in which no transform was given None, the
\* pipes that applied their transform to a payload are, in order, a prefix
\* of the depth-first walk of the paths from the source, a pipe appearing
\* once per path to it; they are the whole walk for every payload before the
\* last one and, once production has stopped, for the last one too.
C30_ConsumerPerLink ==
    lineage.built =>
        /\ \A q \in Pipes :
              Cardinality({g \in AllHandles : flow[g[1]][g[2]].pipe = q})
                 = InDegree(topo, q)
        /\ (FullyLinked(topo) /\ ~Cyclic(topo)
               /\ \A n \in 1 .. Len(log) : log[n].t # "beginNone") =>
              \A k \in 1 .. produced :
                 /\ IsPrefix(BegunWith(k), Walk(topo, Kids(topo, SourcePipe)))
                 /\ (k < produced \/ Stopped) =>
                       BegunWith(k) = Walk(topo, Kids(topo, SourcePipe))

\* C30 witness: pipe 3 is linked below the source and below pipe 2, and pipe
\* 4 below pipe 3; the one payload of the run went through pipe 3 and pipe 4
\* twice, first on the path through pipe 2.
C30_Witness ==
    /\ topo = JoinShape
    /\ phase = "done"
    /\ produced = 1
    /\ BegunWith(1) = <<2, 3, 4, 3, 4>>
    /\ Count("recv", <<3, 1>>) = 2
    /\ Count("recv", <<2, 1>>) = 1
    /\ Count("recv", <<1, 2>>) = 1

\* ------------------------------------------------- the engine used directly
\* The pipes are instantiated, linked and run by a caller's own code, without
\* the orchestrator: link() is called on each pipe, a refused link is caught
\* by the caller, the source loop is run, and after it returned it is run
\* again, with or without new link() calls.
MaxRuns == 2

DirectShapes ==
    { Shape(<< <<2>>, <<3>>, << >> >>),
      Shape(<< <<2, 3>>, << >>, << >> >>),
      Shape(<< <<2, 3>>, <<3>>, << >> >>) }

DirectRoles == {"Preproc", "GlobalTopo", "Logger"}

\* The runs of the source loop that returned.
Runs == Cardinality({n \in 1 .. Len(log) : log[n].t = "return"})

\* The pipes a caller links again between two runs: none, the source only,
\* or every pipe.
RelinkChoices == {{}, {SourcePipe}, {p \in Pipes : topo[p] # Absent}}

InitDirect ==
    /\ topo \in DirectShapes
    /\ role \in {r \in [Pipes -> Roles] :
                   /\ r[SourcePipe] = "Interface"
                   /\ \A p \in Named(topo) \ {SourcePipe} : r[p] \in DirectRoles
                   /\ \A p \in Pipes \ (Named(topo) \cup {SourcePipe}) :
                         r[p] = "Logger"}
    /\ pending = {p \in Pipes : topo[p] # Absent}
    /\ linked = [p \in Pipes |-> FALSE]
    /\ flow = [p \in Pipes |-> << >>]
    /\ stack = << >>
    /\ heap = << >>
    /\ log = << >>
    /\ produced = 0
    /\ phase = "build"
    /\ err = ""
    /\ insts = << >>
    /\ hashes = << >>
    /\ made = Pipes
    /\ lineage = [built |-> FALSE, rows |-> << >>]
    /\ csv = << >>

\* pipe.link(downstream_pipe_list) called by the caller's code; an exception
\* it raises is caught there, and the caller goes on.
LinkDirect(p) ==
    /\ phase = "build"
    /\ p \in pending
    /\ pending' = pending \ {p}
    /\ LET res == link(p, topo[p]) IN
       /\ linked' = [linked EXCEPT ![p] = TRUE]
       /\ flow' = [flow EXCEPT ![p] = res.flow]
       /\ err' = res.err
    /\ log' = Append(log, Ev("link", p, NoHandle, 0))
    /\ UNCHANGED <<role, topo, stack, heap, produced, phase, hashVars,
                   orchVars>>

\* source.apply_pipe_as_source() called by the caller's code, up to the loop.
StartDirect ==
    /\ phase = "build"
    /\ pending = {}
    /\ phase' = "run"
    /\ stack' = << Frame("source", SourcePipe, NoHandle, "next",
                         NonePacket, 0) >>
    /\ log' = Append(log, Ev("start", SourcePipe, NoHandle, 0))
    /\ UNCHANGED <<role, topo, pending, linked, flow, heap, produced, err,
                   hashVars, orchVars>>

\* After the source loop returned the caller prepares another run on the
\* same pipe objects, and chooses the pipes it links again before it.
RunAgain(again) ==
    /\ phase = "done"
    /\ Runs < MaxRuns
    /\ again \in RelinkChoices
    /\ phase' = "build"
    /\ pending' = again
    /\ UNCHANGED <<role, topo, linked, flow, stack, heap, log, produced, err,
                   hashVars, orchVars>>

NextDirect ==
    \/ \E p \in Pipes : LinkDirect(p)
    \/ StartDirect
    \/ \E again \in SUBSET Pipes : RunAgain(again)
    \/ \E out \in {"payload", "badpayload", "stop", "fail"} : SourceNext(out)
    \/ Send
    \/ SendDone
    \/ \E out \in {"ok", "bad", "none", "raise"} : FlowTransform(out)
    \/ Close
    \/ CloseDone

SpecDirect == InitDirect /\ [][NextDirect]_vars

\* link() was called on pipe p after the last run returned, or before the
\* first one.
LinkedSinceRun(p) ==
    \E n \in 1 .. Len(log) :
       /\ log[n].t = "link"
       /\ log[n].p = p
       /\ \A m \in n + 1 .. Len(log) : log[m].t # "return"

\* C27: a failed link() is not atomic.  Whether or not link() raised, the
\* pipe counts as linked and its list holds handles for the candidates
\* before the first one whose role the table refuses, in order; while the
\* graph is being linked these are new handles, whatever the list held
\* before; a run is not ended by the link-before-run error of a pipe that
\* was linked; and what such a pipe emits goes to the first handle of its
\* list, as the close of the source does unless that handle has ended.
C27_FailedLinkNotAtomic ==
    /\ \A p \in Pipes :
          linked[p] =>
             LET L == RealCandidates(topo[p])
                 b == FirstBad(L, SpecRoleTable(role[p]))
             IN  /\ HandlePipes(p) = SubSeq(L, 1, b - 1)
                 /\ (phase = "build" /\ LinkedSinceRun(p)) =>
                       \A i \in 1 .. Len(flow[p]) : flow[p][i].st = "suspended"
                 /\ (b <= Len(L) /\ phase = "build" /\ pending = {}) =>
                       ENABLED StartDirect
    /\ (phase = "raised" /\ err = "PipeLinkError") => ~linked[LastEv.p]
    /\ \A n \in 1 .. Len(log) - 1 :
          /\ (log[n].t \in {"emit", "none"} /\ flow[log[n].p] # << >>) =>
                /\ log[n + 1].t = "recv"
                /\ log[n + 1].h = <<log[n].p, 1>>
          /\ (log[n].t = "stop" /\ flow[SourcePipe] # << >>) =>
                \/ log[n + 1].t = "close" /\ log[n + 1].h = <<SourcePipe, 1>>
                \/ log[n + 1].t = "return"

\* C27 witness: the source's link to a Preproc pipe and a GlobalTopo pipe
\* was refused at the second; the run went on with the one handle, which
\* received the payload and the close, and the source loop returned.
C27_Witness ==
    /\ topo = Shape(<< <<2, 3>>, << >>, << >> >>)
    /\ role[2] = "Preproc" /\ role[3] = "GlobalTopo"
    /\ linked[SourcePipe]
    /\ HandlePipes(SourcePipe) = <<2>>
    /\ Count("recv", <<1, 1>>) = 1
    /\ Count("closed", <<1, 1>>) = 1
    /\ phase = "done"

\* The position of the last return of the source loop, 0 if it never
\* returned.
LastReturn ==
    LET R == {n \in 1 .. Len(log) : log[n].t = "return"}
    IN  IF R = {} THEN 0 ELSE CHOOSE n \in R : \A m \in R : m <= n

\* C29: closed handles stay closed.  After a handle has ended, nothing is
\* delivered to it, its transform is not applied and it observes no close,
\* unless link() was called on its upstream pipe in between.  In a run that
\* follows a completed one without a new link() on a source that has
\* handles, no handle receives a packet and no transform is applied: the
\* first payload the source emits is the last thing that happens, and the
\* run ends with the StopIteration of the send to the ended handle.
C29_ClosedStayClosed ==
    /\ \A m \in 1 .. Len(log) :
          log[m].t = "closed" =>
             \A n \in m + 1 .. Len(log) :
                (log[n].h = log[m].h
                    /\ log[n].t \in {"recv", "begin", "beginNone", "close"}) =>
                   \E l \in m + 1 .. n - 1 :
                      log[l].t = "link" /\ log[l].p = log[m].h[1]
    /\ (LastReturn > 0 /\ flow[SourcePipe] # << >>
           /\ \A n \in LastReturn + 1 .. Len(log) :
                 ~(log[n].t = "link" /\ log[n].p = SourcePipe)) =>
          /\ \A n \in LastReturn + 1 .. Len(log) :
                /\ log[n].t \notin {"recv", "begin", "beginNone", "close"}
                /\ log[n].t = "emit" =>
                      /\ n = Len(log)
                      /\ \/ phase = "run" /\ ENABLED Send
                         \/ phase = "raised" /\ err = "StopIteration"
          /\ (phase = "raised" /\ LastEv.t # "start") =>
                (err = "StopIteration" \/ FailureAt(Len(log)))
    /\ (phase = "raised" /\ err = "StopIteration") =>
          /\ LastReturn > 0
          /\ LastEv.t \in {"emit", "none"}

\* C29 witness: after a run that returned, the source loop was run again
\* without a new link(); the first payload it emitted was refused by the
\* ended handle with StopIteration.
C29_Witness ==
    /\ LastReturn > 0
    /\ phase = "raised"
    /\ err = "StopIteration"
    /\ LastEv.t = "emit"
    /\ LastEv.p = SourcePipe
    /\ \A n \in LastReturn + 1 .. Len(log) : log[n].t # "link"
    /\ Count("closed", <<1, 1>>) = 1

\* C29, with link() called again on every pipe: the second run delivers the
\* payload to the new handles and returns.
C29_RelinkedWitness ==
    /\ Runs = 2
    /\ phase = "done"
    /\ Count("closed", <<1, 1>>) = 2
    /\ \E n \in 1 .. Len(log) :
          /\ log[n].t = "begin"
          /\ \E m \in 1 .. n - 1 : log[m].t = "return"

====
